---- MODULE Spec2Model ----
(***************************************************************************)
(* PDF section binding: the signature order calculator                     *)
(* (pdf_section_binding/core.py, calculate_signature_order), the           *)
(* processor built on it (SectionBindingProcessor.process_pdf), the        *)
(* command line around both (pdf_section_binding/cli.py, main) and the     *)
(* standalone script's copy of the calculator (section_binding.py).        *)
(*                                                                         *)
(* Python lists are 0-indexed, TLA+ sequences 1-indexed: list index k is   *)
(* sequence position k + 1.  Page numbers are the source's 1-based ones.   *)
(***************************************************************************)
EXTENDS Integers, Sequences, FiniteSets, TLC

(* ------------------------------ bounds --------------------------------- *)

\* Largest signature tried, in sheets of paper (4 pages each).
MaxPapers == 3

\* The longest document holds this many signatures of the largest size.
MaxSignatures == 3

MaxSize == 4 * MaxPapers

MaxPages == MaxSignatures * MaxSize

\* The largest signature size the command line accepts.
CliMaxSize == 128

\* Arguments a caller may pass: any integer size, valid or not (one of them
\* above the command line's limit), and any integer page count.

SizeInputs == (0 - MaxSize)..(MaxSize + 2) \cup {CliMaxSize + 4}

PageInputs == (0 - 2)..MaxPages

(* ------------------- calculate_signature_order ------------------------- *)

\* The blank placeholder appended while padding (Python's None).
None == 0

\* A size the function accepts: passes both checks of core.py:48-54.
ValidSize(signature_size) == signature_size % 4 = 0 /\ signature_size >= 4

\* Faulty variant: rounds up by adding a whole signature (n // s + 1).
PaddedPagesOff(total_pages, signature_size) ==
    ((total_pages + signature_size) \div signature_size) * signature_size

\* padded_pages: the page count rounded up to whole signatures.
PaddedPages(total_pages, signature_size) ==
    ((total_pages + signature_size - 1) \div signature_size) * signature_size

\* Faulty variant: pads with further page numbers instead of blanks.
PagesPadNumbered(total_pages, signature_size) ==
    LET real == IF total_pages > 0 THEN total_pages ELSE 0
        padded == PaddedPages(total_pages, signature_size)
        len == IF padded > real THEN padded ELSE real
    IN  [k \in 1..len |-> k]

\* pages: list(range(1, total_pages + 1)), then None appended while the
\* list is shorter than padded_pages.
Pages(total_pages, signature_size) ==
    LET real == IF total_pages > 0 THEN total_pages ELSE 0
        padded == PaddedPages(total_pages, signature_size)
        len == IF padded > real THEN padded ELSE real
    IN  [k \in 1..len |-> IF k <= real THEN k ELSE None]

\* Faulty variant: a 1-based left index.
LeftPageFromOne(signature_start, signature_size, i) == signature_start + i + 1

\* left_page and right_page of sheet i of the signature at signature_start.
LeftPage(signature_start, signature_size, i) == signature_start + i

\* Faulty variants: signature_start forgotten; the - 1 forgotten.
RightPageNoStart(signature_start, signature_size, i) ==
    signature_size - 1 - i

RightPageOff(signature_start, signature_size, i) ==
    signature_start + signature_size - i

RightPage(signature_start, signature_size, i) ==
    signature_start + signature_size - 1 - i

\* pages[index] as Python evaluates it: a negative index counts from the end.
Subscript(pages, index) ==
    IF index >= 0 THEN pages[index + 1] ELSE pages[Len(pages) + index + 1]

\* Faulty variant: front page before back page.
SheetLeftFirst(pages, signature_start, signature_size, i) ==
    LET left_page == LeftPage(signature_start, signature_size, i)
        right_page == RightPage(signature_start, signature_size, i)
    IN  (IF left_page < Len(pages)
            THEN <<Subscript(pages, left_page)>> ELSE <<>>)
        \o (IF right_page < Len(pages)
            THEN <<Subscript(pages, right_page)>> ELSE <<>>)

\* What one sheet appends to signature_order: the page at right_page, then
\* the page at left_page, each behind its bounds guard.
Sheet(pages, signature_start, signature_size, i) ==
    LET left_page == LeftPage(signature_start, signature_size, i)
        right_page == RightPage(signature_start, signature_size, i)
    IN  (IF right_page < Len(pages)
            THEN <<Subscript(pages, right_page)>> ELSE <<>>)
        \o (IF left_page < Len(pages)
            THEN <<Subscript(pages, left_page)>> ELSE <<>>)

\* The inner loop, for i in range(signature_size // 2), from sheet i on.
RECURSIVE SheetsFrom(_, _, _, _)
SheetsFrom(pages, signature_start, signature_size, i) ==
    IF i >= signature_size \div 2
    THEN <<>>
    ELSE Sheet(pages, signature_start, signature_size, i)
         \o SheetsFrom(pages, signature_start, signature_size, i + 1)

\* signature_order of the signature at signature_start.
SignatureOrder(pages, signature_start, signature_size) ==
    SheetsFrom(pages, signature_start, signature_size, 0)

\* The values signature_start takes in the outer loop:
\* range(0, padded_pages, signature_size).
SignatureStarts(padded_pages, signature_size) ==
    {j * signature_size : j \in 0..(padded_pages \div signature_size - 1)}

\* The outer loop, for signature_start in range(0, padded_pages,
\* signature_size), from signature_start on: reordered_pages.
RECURSIVE ReorderedFrom(_, _, _, _)
ReorderedFrom(pages, padded_pages, signature_size, signature_start) ==
    IF signature_start >= padded_pages
    THEN <<>>
    ELSE SignatureOrder(pages, signature_start, signature_size)
         \o ReorderedFrom(pages, padded_pages, signature_size,
                          signature_start + signature_size)

\* Faulty variant: the blanks are kept.
DropBlanksKeepAll(reordered_pages) == reordered_pages

\* The final comprehension [p for p in reordered_pages if p is not None].
DropBlanks(reordered_pages) ==
    LET IsPage(p) == p # None IN SelectSeq(reordered_pages, IsPage)

\* The outcome of a call: the exception raised ("none" when it returns)
\* and the list returned.
Raised(exception) == [raised |-> exception, value |-> <<>>]

Returned(list) == [raised |-> "none", value |-> list]

\* Faulty variant: the multiple-of-4 check is missing.
SizeCheckRoundsDown(signature_size) ==
    IF signature_size < 4 THEN "ValueError" ELSE "none"

\* The two checks at the head of the function.
SizeCheck(signature_size) ==
    IF signature_size % 4 # 0 THEN "ValueError"
    ELSE IF signature_size < 4 THEN "ValueError"
    ELSE "none"

\* Variant with the page count checked too.
calculate_signature_order_checked(total_pages, signature_size) ==
    IF SizeCheck(signature_size) # "none"
    THEN Raised(SizeCheck(signature_size))
    ELSE IF total_pages < 0
    THEN Raised("ValueError")
    ELSE LET padded_pages == PaddedPages(total_pages, signature_size)
             pages == Pages(total_pages, signature_size)
         IN  Returned(DropBlanks(
                 ReorderedFrom(pages, padded_pages, signature_size, 0)))

calculate_signature_order(total_pages, signature_size) ==
    IF SizeCheck(signature_size) # "none"
    THEN Raised(SizeCheck(signature_size))
    ELSE LET padded_pages == PaddedPages(total_pages, signature_size)
             pages == Pages(total_pages, signature_size)
         IN  Returned(DropBlanks(
                 ReorderedFrom(pages, padded_pages, signature_size, 0)))

(* ------------ section_binding.py: calculate_signature_order ------------ *)

\* The standalone script's function of the same name: the same statements
\* with no check of signature_size, so every integer reaches the
\* arithmetic.

\* Python's a // b for b # 0 (rounds towards minus infinity).
FloorDiv(a, b) == IF b > 0 THEN a \div b ELSE (0 - a) \div (0 - b)

\* padded_pages of the script.
ScriptPaddedPages(n, s) == FloorDiv(n + s - 1, s) * s

\* pages of the script: list(range(1, n + 1)), then None appended while
\* the list is shorter than padded_pages.
ScriptPages(n, s) ==
    LET real == IF n > 0 THEN n ELSE 0
        padded == ScriptPaddedPages(n, s)
    IN  [k \in 1..real |-> k]
        \o [k \in 1..(IF padded > real THEN padded - real ELSE 0) |-> None]

\* The script's inner loop from sheet i on: for i in range(s // 2).
RECURSIVE ScriptSheetsFrom(_, _, _, _)
ScriptSheetsFrom(list, start, s, i) ==
    IF i >= FloorDiv(s, 2)
    THEN <<>>
    ELSE (IF start + s - 1 - i < Len(list)
             THEN <<Subscript(list, start + s - 1 - i)>> ELSE <<>>)
         \o (IF start + i < Len(list)
             THEN <<Subscript(list, start + i)>> ELSE <<>>)
         \o ScriptSheetsFrom(list, start, s, i + 1)

\* The script's outer loop from start on: for signature_start in
\* range(0, padded_pages, s), with a step of either sign.
RECURSIVE ScriptReorderedFrom(_, _, _, _)
ScriptReorderedFrom(list, padded, s, start) ==
    IF (s > 0 /\ start >= padded) \/ (s < 0 /\ start <= padded)
    THEN <<>>
    ELSE ScriptSheetsFrom(list, start, s, 0)
         \o ScriptReorderedFrom(list, padded, s, start + s)

script_calculate_signature_order(n, s) ==
    IF s = 0
    THEN Raised("ZeroDivisionError")
    ELSE LET IsPage(p) == p # None
         IN  Returned(SelectSeq(
                 ScriptReorderedFrom(ScriptPages(n, s),
                                     ScriptPaddedPages(n, s), s, 0),
                 IsPage))

(* ---------------------------- process_pdf ----------------------------- *)

\* Exception classes that derive from Exception, and the one raised inside
\* process_pdf that does not (BaseException only).
ExceptionClasses ==
    {"FileNotFoundError", "PermissionError", "IsADirectoryError", "OSError",
     "ValueError", "PdfReadError", "RuntimeError"}

BaseOnlyClasses == {"KeyboardInterrupt"}

\* Faulty variant: the PermissionError clause is missing.
SurfaceNoPermissionClause(exception) ==
    IF exception = "FileNotFoundError" THEN "FileNotFoundError"
    ELSE IF exception \in ExceptionClasses THEN "RuntimeError"
    ELSE exception

\* The except clauses of process_pdf: the exception that leaves the method
\* when `exception` is raised inside its try block.
Surface(exception) ==
    IF exception = "FileNotFoundError" THEN "FileNotFoundError"
    ELSE IF exception = "PermissionError" THEN "PermissionError"
    ELSE IF exception \in ExceptionClasses THEN "RuntimeError"
    ELSE exception

\* What PdfReader(input_path) raises for each state of the input file.
ReadFailure(status) ==
    CASE status = "missing" -> "FileNotFoundError"
      [] status = "denied" -> "PermissionError"
      [] status = "corrupt" -> "PdfReadError"
      [] status = "notpdf" -> "PdfReadError"
      [] OTHER -> "none"

\* What open(output_path, "wb") may raise.
OpenFailures == {"PermissionError", "FileNotFoundError", "IsADirectoryError"}

\* The statistics of the result dictionary.
PapersPerSignature(size) == size \div 4

\* Faulty variant: rounds down.
TotalSignaturesFloor(pages, size) == pages \div size

TotalSignatures(pages, size) == (pages + size - 1) \div size

TotalPapers(pages, size) ==
    TotalSignatures(pages, size) * PapersPerSignature(size)

\* The result dictionary as built before the dry-run test.
ResultDict(pages, size, order, dry) ==
    [input_path |-> "input.pdf",
     output_path |-> "output.pdf",
     total_pages |-> pages,
     signature_size |-> size,
     papers_per_signature |-> PapersPerSignature(size),
     total_signatures |-> TotalSignatures(pages, size),
     total_papers |-> TotalPapers(pages, size),
     page_order |-> order,
     dry_run |-> dry]

\* Faulty variant: the last page fails the test.
AddableBelowLast(page_num, pages) == page_num # None /\ page_num < pages

\* The test guarding writer.add_page: page_num and page_num <= total_pages.
Addable(page_num, pages) == page_num # None /\ page_num <= pages

(* -------------------------------- main --------------------------------- *)

\* validate_pdf_file: whether it returns an error message for the input.
PdfError(status) == status \in {"missing", "denied", "notpdf"}

\* Faulty variant: the upper limit on the size is not checked.
RejectionNoLimit(cl, input, output, dir) ==
    IF PdfError(input.status) THEN "input"
    ELSE IF cl.signature_size % 4 # 0 THEN "multiple"
    ELSE IF cl.signature_size < 4 THEN "small"
    ELSE IF ~cl.dry_run /\ output.state # "absent" /\ ~cl.force
         THEN "exists"
    ELSE IF ~cl.dry_run /\ dir = "uncreatable" THEN "mkdir"
    ELSE IF ~cl.dry_run /\ dir = "readonly" THEN "access"
    ELSE IF cl.quiet /\ cl.verbose THEN "conflict"
    ELSE "none"

\* Faulty variant: --quiet with --verbose is accepted.
RejectionNoConflict(cl, input, output, dir) ==
    IF PdfError(input.status) THEN "input"
    ELSE IF cl.signature_size % 4 # 0 THEN "multiple"
    ELSE IF cl.signature_size < 4 THEN "small"
    ELSE IF cl.signature_size > CliMaxSize THEN "large"
    ELSE IF ~cl.dry_run /\ output.state # "absent" /\ ~cl.force
         THEN "exists"
    ELSE IF ~cl.dry_run /\ dir = "uncreatable" THEN "mkdir"
    ELSE IF ~cl.dry_run /\ dir = "readonly" THEN "access"
    ELSE "none"

\* Faulty variant: an existing output file is not checked for.
RejectionNoExists(cl, input, output, dir) ==
    IF PdfError(input.status) THEN "input"
    ELSE IF cl.signature_size % 4 # 0 THEN "multiple"
    ELSE IF cl.signature_size < 4 THEN "small"
    ELSE IF cl.signature_size > CliMaxSize THEN "large"
    ELSE IF ~cl.dry_run /\ dir = "uncreatable" THEN "mkdir"
    ELSE IF ~cl.dry_run /\ dir = "readonly" THEN "access"
    ELSE IF cl.quiet /\ cl.verbose THEN "conflict"
    ELSE "none"

\* The first check of validate_arguments that fails, "none" when all pass.
\* cl is the parsed command line, input and output the two files, dir the
\* output directory.
Rejection(cl, input, output, dir) ==
    IF PdfError(input.status) THEN "input"
    ELSE IF cl.signature_size % 4 # 0 THEN "multiple"
    ELSE IF cl.signature_size < 4 THEN "small"
    ELSE IF cl.signature_size > CliMaxSize THEN "large"
    ELSE IF ~cl.dry_run /\ output.state # "absent" /\ ~cl.force
         THEN "exists"
    ELSE IF ~cl.dry_run /\ dir = "uncreatable" THEN "mkdir"
    ELSE IF ~cl.dry_run /\ dir = "readonly" THEN "access"
    ELSE IF cl.quiet /\ cl.verbose THEN "conflict"
    ELSE "none"

\* Faulty variant: the directory is created in dry-run mode too.
DirAfterValidationDryRunToo(cl, input, output, dir) ==
    IF /\ Rejection(cl, input, output, dir) \in {"none", "conflict"}
       /\ dir = "missing"
    THEN "created"
    ELSE dir

\* Faulty variant: the directory is created before any check is made.
DirAfterValidationFirst(cl, input, output, dir) ==
    IF ~cl.dry_run /\ dir = "missing" THEN "created" ELSE dir

\* The output directory after validate_arguments: output_dir.mkdir is
\* reached when the earlier checks pass and the directory is missing; the
\* directory is then one this run created.
DirAfterValidation(cl, input, output, dir) ==
    IF /\ Rejection(cl, input, output, dir) \in {"none", "conflict"}
       /\ ~cl.dry_run
       /\ dir = "missing"
    THEN "created"
    ELSE dir

\* Faulty variant: the OSError clause comes first and takes its subclasses.
ExitCodeOsErrorFirst(exception) ==
    IF exception = "KeyboardInterrupt" THEN 130
    ELSE IF exception \in {"OSError", "IsADirectoryError",
                           "FileNotFoundError", "PermissionError"} THEN 1
    ELSE IF exception = "ValueError" THEN 22
    ELSE 1

\* The except clauses of main, in their order: the code main returns for
\* an exception raised inside its try block.
ExitCode(exception) ==
    IF exception = "KeyboardInterrupt" THEN 130
    ELSE IF exception = "FileNotFoundError" THEN 2
    ELSE IF exception = "PermissionError" THEN 13
    ELSE IF exception = "ValueError" THEN 22
    ELSE IF exception = "RuntimeError" THEN 1
    ELSE IF exception \in {"OSError", "IsADirectoryError"} THEN 1
    ELSE 1

(* ------------------------------ state ---------------------------------- *)

VARIABLES
    pc,              \* where the program is
    total_pages,     \* page count: argument of the call / len(reader.pages)
    signature_size,  \* argument of the current call
    ret,             \* outcome of the calculator call
    input_file,      \* the input path: its status and its number of pages
    output_file,     \* the output path: its state and the pages it holds
    dry_run,         \* argument of process_pdf
    result,          \* the result dictionary of process_pdf
    writer,          \* the PdfWriter: whether created, the pages added
    next_index,      \* the loop index i of the page-adding loop
    thrown,          \* the exception raised inside the try block
    escaped,         \* the exception that left process_pdf
    args,            \* the parsed command line of a run of main
    out_dir,         \* the directory of the output path
    exit_status,     \* the exit status of a run of main
    locals           \* the calculator's local variables, while it runs

vars == <<pc, total_pages, signature_size, ret, input_file, output_file,
          dry_run, result, writer, next_index, thrown, escaped, args,
          out_dir, exit_status, locals>>

cli_vars == <<args, out_dir, exit_status>>

calc_vars == <<total_pages, signature_size, ret>>

file_vars == <<input_file, output_file>>

proc_vars == <<dry_run, result, writer, next_index, thrown, escaped>>

NoResult == [dry_run |-> FALSE]

NoWriter == [created |-> FALSE, pages |-> <<>>]

NoFile == [status |-> "none", pages |-> 0]

AbsentOutput == [state |-> "absent", pages |-> <<>>]

NoArgs ==
    [parsed |-> FALSE, signature_size |-> 0, dry_run |-> FALSE,
     force |-> FALSE, quiet |-> FALSE, verbose |-> FALSE]

\* main has not ended.
NoExit == 0 - 1

\* The calculator is not running.  appends, signatures and sheets count
\* the iterations of the padding loop, the signature loop and the sheet
\* loop of the current call.
NoLocals ==
    [padded_pages |-> 0, pages |-> <<>>, reordered_pages |-> <<>>,
     signature_order |-> <<>>, signature_start |-> 0, i |-> 0,
     appends |-> 0, signatures |-> 0, sheets |-> 0]

Init ==
    /\ pc = "idle"
    /\ total_pages = 0
    /\ signature_size = 0
    /\ ret = Returned(<<>>)
    /\ input_file = NoFile
    /\ output_file = AbsentOutput
    /\ dry_run = FALSE
    /\ result = NoResult
    /\ writer = NoWriter
    /\ next_index = 0
    /\ thrown = "none"
    /\ escaped = "none"
    /\ args = NoArgs
    /\ out_dir = "writable"
    /\ exit_status = NoExit
    /\ locals = NoLocals

\* A direct call of the library function (tests, example_usage.py).
CallCalculate ==
    /\ pc = "idle"
    /\ \E n \in PageInputs, s \in SizeInputs :
         /\ total_pages' = n
         /\ signature_size' = s
         /\ ret' = calculate_signature_order(n, s)
    /\ pc' = "calculated"
    /\ UNCHANGED <<locals, cli_vars, file_vars, proc_vars>>

\* A direct call of the standalone script's function.
CallScriptCalculate ==
    /\ pc = "idle"
    /\ \E n \in PageInputs, s \in SizeInputs :
         /\ total_pages' = n
         /\ signature_size' = s
         /\ ret' = script_calculate_signature_order(n, s)
    /\ pc' = "script_calculated"
    /\ UNCHANGED <<locals, cli_vars, file_vars, proc_vars>>

\* An exception raised inside the try block of process_pdf leaves it as the
\* except clauses decide.
Throw(exception) ==
    /\ thrown' = exception
    /\ escaped' = Surface(exception)
    /\ pc' = "raised"

\* process_pdf is called: any input file, any size, either mode, the output
\* path absent or holding an earlier file.
ProcessPdf ==
    /\ pc = "idle"
    /\ \E status \in {"ok", "missing", "denied", "corrupt"},
          n \in 0..MaxPages, s \in SizeInputs, dry \in BOOLEAN,
          out \in {"absent", "old"} :
         /\ input_file' = [status |-> status,
                           pages |-> IF status = "ok" THEN n ELSE 0]
         /\ signature_size' = s
         /\ dry_run' = dry
         /\ output_file' = [state |-> out, pages |-> <<>>]
    /\ pc' = "read"
    /\ UNCHANGED <<locals, cli_vars, total_pages, ret, result, writer, next_index, thrown,
                   escaped>>

\* reader = PdfReader(input_path); total_pages = len(reader.pages)
ReadInput ==
    /\ pc = "read"
    /\ IF ReadFailure(input_file.status) # "none"
       THEN /\ Throw(ReadFailure(input_file.status))
            /\ UNCHANGED total_pages
       ELSE /\ total_pages' = input_file.pages
            /\ pc' = "order"
            /\ UNCHANGED <<thrown, escaped>>
    /\ UNCHANGED <<locals, cli_vars, signature_size, ret, file_vars, dry_run, result, writer,
                   next_index>>

\* page_order = calculate_signature_order(total_pages, signature_size)
CalculateOrder ==
    /\ pc = "order"
    /\ ret' = calculate_signature_order(total_pages, signature_size)
    /\ IF ret'.raised # "none"
       THEN Throw(ret'.raised)
       ELSE /\ pc' = "stats"
            /\ UNCHANGED <<thrown, escaped>>
    /\ UNCHANGED <<locals, cli_vars, total_pages, signature_size, file_vars, dry_run, result,
                   writer, next_index>>

\* Faulty variant: the dry-run test is missing.
BuildResultAlwaysWrites ==
    /\ pc = "stats"
    /\ result' = ResultDict(total_pages, signature_size, ret.value, dry_run)
    /\ pc' = "add"
    /\ writer' = [created |-> TRUE, pages |-> <<>>]
    /\ next_index' = 0
    /\ UNCHANGED <<locals, cli_vars, calc_vars, file_vars, dry_run, thrown, escaped>>

\* The statistics and the result dictionary; in dry-run mode the result is
\* returned at once, otherwise the writer is created.
BuildResult ==
    /\ pc = "stats"
    /\ result' = ResultDict(total_pages, signature_size, ret.value, dry_run)
    /\ IF dry_run
       THEN /\ pc' = "returned"
            /\ UNCHANGED <<writer, next_index>>
       ELSE /\ pc' = "add"
            /\ writer' = [created |-> TRUE, pages |-> <<>>]
            /\ next_index' = 0
    /\ UNCHANGED <<locals, cli_vars, calc_vars, file_vars, dry_run, thrown, escaped>>

\* One iteration of for i, page_num in enumerate(page_order); the loop's
\* end leads to the opening of the output file.
AddPage ==
    /\ pc = "add"
    /\ IF next_index < Len(result.page_order)
       THEN LET page_num == result.page_order[next_index + 1]
            IN  /\ writer' =
                     IF Addable(page_num, total_pages)
                     THEN [writer EXCEPT !.pages = Append(@, page_num)]
                     ELSE writer
                /\ next_index' = next_index + 1
                /\ pc' = "add"
       ELSE /\ pc' = "open"
            /\ UNCHANGED <<writer, next_index>>
    /\ UNCHANGED <<locals, cli_vars, calc_vars, file_vars, dry_run, result, thrown, escaped>>

\* with open(output_path, "wb") as output_file: creates or truncates the
\* file, or fails.
OpenOutput ==
    /\ pc = "open"
    /\ \/ /\ output_file' = [state |-> "truncated", pages |-> <<>>]
          /\ pc' = "write"
          /\ UNCHANGED <<thrown, escaped>>
       \/ /\ \E e \in OpenFailures : Throw(e)
          /\ UNCHANGED output_file
    /\ UNCHANGED <<locals, cli_vars, calc_vars, input_file, dry_run, result, writer,
                   next_index>>

\* writer.write(output_file), result["output_pages"] = len(writer.pages)
\* and the return; or the write fails part-way (OSError).
WriteOutput ==
    /\ pc = "write"
    /\ \/ /\ output_file' = [state |-> "written", pages |-> writer.pages]
          /\ result' = result @@ ("output_pages" :> Len(writer.pages))
          /\ pc' = "returned"
          /\ UNCHANGED <<thrown, escaped>>
       \/ /\ output_file' =
               [state |-> "partial",
                pages |-> SubSeq(writer.pages, 1, Len(writer.pages) \div 2)]
          /\ Throw("OSError")
          /\ UNCHANGED result
    /\ UNCHANGED <<locals, cli_vars, calc_vars, input_file, dry_run, writer, next_index>>

\* The user presses Ctrl-C while process_pdf runs: KeyboardInterrupt is
\* raised inside the try block.
Interrupt ==
    /\ pc \in {"read", "order", "stats", "add", "open", "write"}
    /\ Throw("KeyboardInterrupt")
    /\ UNCHANGED <<locals, cli_vars, calc_vars, file_vars, dry_run, result, writer,
                   next_index>>

\* main is run: any command line, any input file, the output path absent
\* or holding an earlier file, its directory writable, read-only, missing
\* or missing where it cannot be created.
Main ==
    /\ pc = "idle"
    /\ \E status \in {"ok", "missing", "denied", "notpdf", "corrupt"},
          n \in 0..MaxSize, s \in SizeInputs,
          dry \in BOOLEAN, force \in BOOLEAN, quiet \in BOOLEAN,
          verbose \in BOOLEAN, out \in {"absent", "old"},
          dir \in {"writable", "readonly", "missing", "uncreatable"} :
         /\ out = "old" => dir \in {"writable", "readonly"}
         /\ input_file' = [status |-> status,
                           pages |-> IF status = "ok" THEN n ELSE 0]
         /\ args' = [parsed |-> TRUE, signature_size |-> s, dry_run |-> dry,
                     force |-> force, quiet |-> quiet, verbose |-> verbose]
         /\ output_file' = [state |-> out, pages |-> <<>>]
         /\ out_dir' = dir
    /\ pc' = "validate"
    /\ UNCHANGED <<locals, calc_vars, proc_vars, exit_status>>

\* validate_arguments: sys.exit(1) on the first failed check (SystemExit
\* passes through main's except clauses), otherwise main goes on.
ValidateArguments ==
    /\ pc = "validate"
    /\ out_dir' = DirAfterValidation(args, input_file, output_file, out_dir)
    /\ IF Rejection(args, input_file, output_file, out_dir) # "none"
       THEN /\ exit_status' = 1
            /\ pc' = "exited"
       ELSE /\ pc' = "process"
            /\ UNCHANGED exit_status
    /\ UNCHANGED <<locals, calc_vars, file_vars, proc_vars, args>>

\* processor.process_pdf(input_path=args.input, output_path=args.output,
\* signature_size=args.signature_size, dry_run=args.dry_run)
CallProcessPdf ==
    /\ pc = "process"
    /\ signature_size' = args.signature_size
    /\ dry_run' = args.dry_run
    /\ pc' = "read"
    /\ UNCHANGED <<locals, cli_vars, total_pages, ret, file_vars, result, writer,
                   next_index, thrown, escaped>>

\* process_pdf returned: the results are printed and main returns 0.
MainReturn ==
    /\ pc = "returned"
    /\ args.parsed
    /\ exit_status' = 0
    /\ pc' = "exited"
    /\ UNCHANGED <<locals, calc_vars, file_vars, proc_vars, args, out_dir>>

\* process_pdf raised: the except clauses of main choose the exit code.
MainExcept ==
    /\ pc = "raised"
    /\ args.parsed
    /\ exit_status' = ExitCode(escaped)
    /\ pc' = "exited"
    /\ UNCHANGED <<locals, calc_vars, file_vars, proc_vars, args, out_dir>>

\* The caller is done with the outcome; the next call starts afresh.
Finish ==
    /\ \/ pc \in {"calculated", "script_calculated", "exited"}
       \/ pc \in {"returned", "raised"} /\ ~args.parsed
    /\ args' = NoArgs
    /\ out_dir' = "writable"
    /\ exit_status' = NoExit
    /\ pc' = "idle"
    /\ total_pages' = 0
    /\ signature_size' = 0
    /\ ret' = Returned(<<>>)
    /\ input_file' = NoFile
    /\ output_file' = AbsentOutput
    /\ dry_run' = FALSE
    /\ result' = NoResult
    /\ writer' = NoWriter
    /\ next_index' = 0
    /\ thrown' = "none"
    /\ escaped' = "none"
    /\ locals' = NoLocals

Next ==
    \/ CallCalculate
    \/ CallScriptCalculate
    \/ ProcessPdf
    \/ ReadInput
    \/ CalculateOrder
    \/ BuildResult
    \/ AddPage
    \/ OpenOutput
    \/ WriteOutput
    \/ Interrupt
    \/ Main
    \/ ValidateArguments
    \/ CallProcessPdf
    \/ MainReturn
    \/ MainExcept
    \/ Finish

Spec == Init /\ [][Next]_vars

(* ------------- calculate_signature_order, statement by statement ------- *)

\* The same function with its loops unrolled into steps: one action per
\* loop iteration, the locals of the call in `locals`.

calc_locals == <<cli_vars, file_vars, proc_vars>>

\* A call of the library function is entered.
EnterCalculate ==
    /\ pc = "idle"
    /\ \E n \in PageInputs, s \in SizeInputs :
         /\ total_pages' = n
         /\ signature_size' = s
    /\ pc' = "check"
    /\ UNCHANGED <<ret, locals, calc_locals>>

\* The two size checks; then padded_pages, pages = list(range(1,
\* total_pages + 1)) and reordered_pages = [].
CheckSize ==
    /\ pc = "check"
    /\ IF SizeCheck(signature_size) # "none"
       THEN /\ ret' = Raised(SizeCheck(signature_size))
            /\ pc' = "calculated"
            /\ UNCHANGED locals
       ELSE /\ locals' =
                 [NoLocals EXCEPT
                    !.padded_pages = PaddedPages(total_pages, signature_size),
                    !.pages = [k \in 1..total_pages |-> k]]
            /\ pc' = "pad"
            /\ UNCHANGED ret
    /\ UNCHANGED <<total_pages, signature_size, calc_locals>>

\* while len(pages) < padded_pages: pages.append(None)
PadPages ==
    /\ pc = "pad"
    /\ IF Len(locals.pages) < locals.padded_pages
       THEN /\ locals' = [locals EXCEPT !.pages = Append(@, None),
                                        !.appends = @ + 1]
            /\ pc' = "pad"
       ELSE /\ locals' = [locals EXCEPT !.signature_start = 0]
            /\ pc' = "signature"
    /\ UNCHANGED <<calc_vars, calc_locals>>

\* for signature_start in range(0, padded_pages, signature_size): the head
\* of the loop (signature_order = []), or its end.
NextSignature ==
    /\ pc = "signature"
    /\ IF locals.signature_start < locals.padded_pages
       THEN /\ locals' = [locals EXCEPT !.signature_order = <<>>,
                                        !.i = 0,
                                        !.signatures = @ + 1]
            /\ pc' = "sheet"
       ELSE /\ pc' = "filter"
            /\ UNCHANGED locals
    /\ UNCHANGED <<calc_vars, calc_locals>>

\* Faulty variant: the sheet loop runs over range(signature_size).
NextSheetWholeSignature ==
    /\ pc = "sheet"
    /\ IF locals.i < signature_size
       THEN /\ locals' =
                 [locals EXCEPT
                    !.signature_order =
                        @ \o Sheet(locals.pages, locals.signature_start,
                                   signature_size, locals.i),
                    !.i = @ + 1,
                    !.sheets = @ + 1]
            /\ pc' = "sheet"
       ELSE /\ locals' =
                 [locals EXCEPT
                    !.reordered_pages = @ \o locals.signature_order,
                    !.signature_start = @ + signature_size]
            /\ pc' = "signature"
    /\ UNCHANGED <<calc_vars, calc_locals>>

\* for i in range(signature_size // 2): one sheet; at the loop's end
\* reordered_pages.extend(signature_order) and the next signature.
NextSheet ==
    /\ pc = "sheet"
    /\ IF locals.i < signature_size \div 2
       THEN /\ locals' =
                 [locals EXCEPT
                    !.signature_order =
                        @ \o Sheet(locals.pages, locals.signature_start,
                                   signature_size, locals.i),
                    !.i = @ + 1,
                    !.sheets = @ + 1]
            /\ pc' = "sheet"
       ELSE /\ locals' =
                 [locals EXCEPT
                    !.reordered_pages = @ \o locals.signature_order,
                    !.signature_start = @ + signature_size]
            /\ pc' = "signature"
    /\ UNCHANGED <<calc_vars, calc_locals>>

\* return [p for p in reordered_pages if p is not None]
ReturnOrder ==
    /\ pc = "filter"
    /\ ret' = Returned(DropBlanks(locals.reordered_pages))
    /\ pc' = "calculated"
    /\ UNCHANGED <<total_pages, signature_size, locals, calc_locals>>

CalcNext ==
    \/ EnterCalculate
    \/ CheckSize
    \/ PadPages
    \/ NextSignature
    \/ NextSheet
    \/ ReturnOrder
    \/ Finish

\* Python executes the statements of a call one after another: a step that
\* can be taken is taken.
CalcSpec == Init /\ [][CalcNext]_vars /\ WF_vars(CalcNext)

(* ------------------------------ claims --------------------------------- *)

\* A direct call has returned or raised.
Called == pc = "calculated"

\* ... and its arguments met the precondition.
ValidCall == Called /\ total_pages >= 0 /\ ValidSize(signature_size)

\* First page slot of the last signature, and the real pages it holds.
LastStart == (total_pages \div signature_size) * signature_size

LastReal == total_pages - LastStart

\* C1: for total_pages >= 0 and a valid size the result has exactly
\* total_pages elements and its set of values is 1..total_pages: every real
\* page once, nothing duplicated, nothing out of range, no blank.
C1_Permutation ==
    ValidCall =>
        /\ ret.raised = "none"
        /\ Len(ret.value) = total_pages
        /\ {ret.value[k] : k \in 1..Len(ret.value)} = 1..total_pages
        /\ \A k \in 1..Len(ret.value) : ret.value[k] # None

C1_Witness ==
    /\ ValidCall
    /\ total_pages > 2 * signature_size
    /\ total_pages % signature_size # 0
    /\ Len(ret.value) = total_pages

\* C2: in every signature j filled with real pages ((j+1)*s <= n), sheet i
\* puts page j*s + s - i at 0-based position j*s + 2i and page j*s + i + 1
\* at position j*s + 2i + 1: back page first, then front page.
C2_FullSignatureLayout ==
    ValidCall =>
        \A j \in 0..MaxPages :
            (j + 1) * signature_size <= total_pages =>
                \A i \in 0..(signature_size \div 2 - 1) :
                    LET base == j * signature_size
                    IN  /\ ret.value[base + 2 * i + 1]
                             = base + signature_size - i
                        /\ ret.value[base + 2 * i + 2] = base + i + 1

C2_Witness ==
    /\ ValidCall
    /\ signature_size >= 8
    /\ total_pages >= 2 * signature_size
    /\ total_pages % signature_size # 0
    /\ ret.value[signature_size + 1] = 2 * signature_size
    /\ ret.value[signature_size + 2] = signature_size + 1

\* C3: a size that is not a positive multiple of 4 (6, 1, 2, 3, 0, -4, ...)
\* makes the call raise ValueError, whatever total_pages is, and no
\* sequence is returned.
C3_InvalidSizeRaises ==
    (Called /\ ~ValidSize(signature_size)) =>
        ret = Raised("ValueError")

C3_Witness ==
    /\ Called
    /\ signature_size = 0 - 4
    /\ total_pages > 0
    /\ ret.raised = "ValueError"

\* C4 as stated: whenever total_pages is not a multiple of the size, the
\* output's tail after the last full signature is b+1, b+2, ..., n
\* (ascending), for every 0 < r < s real pages in the last signature.
C4_TailAscendingAlways ==
    (ValidCall /\ LastReal > 0) =>
        \A k \in 1..LastReal : ret.value[LastStart + k] = LastStart + k

\* C4 amended: the tail is ascending when the last signature holds at most
\* half a signature of real pages (0 < r <= s/2).
C4_TailAscendingUpToHalf ==
    (ValidCall /\ LastReal > 0 /\ 2 * LastReal <= signature_size) =>
        \A k \in 1..LastReal : ret.value[LastStart + k] = LastStart + k

C4_Witness ==
    /\ ValidCall
    /\ LastStart > 0
    /\ LastReal >= 2
    /\ 2 * LastReal = signature_size
    /\ ret.value[total_pages] = total_pages

\* C5: signatures are independent: the first s elements of the result for
\* (2s, s) are the result for (s, s), the last s elements are that result
\* with s added to every value.
C5_Independence ==
    (ValidCall /\ total_pages = 2 * signature_size) =>
        LET s == signature_size
            one == calculate_signature_order(s, s).value
        IN  /\ Len(one) = s
            /\ SubSeq(ret.value, 1, s) = one
            /\ SubSeq(ret.value, s + 1, 2 * s) = [k \in 1..s |-> one[k] + s]

C5_Witness ==
    /\ ValidCall
    /\ signature_size >= 8
    /\ total_pages = 2 * signature_size
    /\ Len(ret.value) = 2 * signature_size

\* C6: an empty document gives the empty sequence for every valid size;
\* no signature is processed and no blank page is produced.
C6_EmptyDocument ==
    (ValidCall /\ total_pages = 0) =>
        /\ ret = Returned(<<>>)
        /\ PaddedPages(total_pages, signature_size) = 0
        /\ Pages(total_pages, signature_size) = <<>>

C6_Witness ==
    /\ ValidCall
    /\ total_pages = 0
    /\ signature_size >= 8
    /\ ret.value = <<>>

\* C7: a one-page document gives exactly [1] for every valid size.
C7_SinglePage ==
    (ValidCall /\ total_pages = 1) => ret = Returned(<<1>>)

C7_Witness ==
    /\ ValidCall
    /\ total_pages = 1
    /\ signature_size >= 8
    /\ Len(ret.value) = 1

\* C8: under the precondition (sizes above the command line's limit
\* included) the call never fails: every left_page and right_page read is
\* inside [0, padded_pages), both bounds guards are true, nothing is raised.
C8_NeverFailsInRange ==
    ValidCall =>
        LET padded_pages == PaddedPages(total_pages, signature_size)
            pages == Pages(total_pages, signature_size)
        IN  /\ ret.raised = "none"
            /\ Len(pages) = padded_pages
            /\ \A start \in SignatureStarts(padded_pages, signature_size) :
                 \A i \in 0..(signature_size \div 2 - 1) :
                   LET left_page == LeftPage(start, signature_size, i)
                       right_page == RightPage(start, signature_size, i)
                   IN  /\ 0 <= left_page /\ left_page < padded_pages
                       /\ 0 <= right_page /\ right_page < padded_pages
                       /\ left_page < Len(pages)
                       /\ right_page < Len(pages)

C8_Witness ==
    /\ ValidCall
    /\ signature_size > CliMaxSize
    /\ total_pages > 0
    /\ ret.raised = "none"
    /\ Len(ret.value) = total_pages

\* process_pdf ended by raising, after reading a PDF without trouble.
RaisedOnReadable == pc = "raised" /\ input_file.status = "ok"

\* C9: process_pdf called with an invalid signature size (not a multiple of
\* 4, or below 4) on a readable PDF raises ValueError.
C9_InvalidSizeValueError ==
    (RaisedOnReadable /\ ~ValidSize(signature_size)
        /\ thrown = "ValueError") =>
        escaped = "ValueError"

BaseKeys ==
    {"input_path", "output_path", "total_pages", "signature_size",
     "papers_per_signature", "total_signatures", "total_papers",
     "page_order", "dry_run"}

\* C11: in dry-run mode process_pdf creates no writer and never opens or
\* writes the output path (the file is as it was before: absent if it was
\* absent); the result returned has dry_run true, total_pages, the
\* statistics and the computed page_order, and no key output_pages.
C11_DryRunFrame ==
    /\ [][(dry_run /\ pc # "idle" /\ pc' # "idle")
            => (output_file' = output_file /\ writer' = NoWriter)]_vars
    /\ [](  (pc = "returned" /\ dry_run) =>
              /\ DOMAIN result = BaseKeys
              /\ result.dry_run = TRUE
              /\ result.total_pages = input_file.pages
              /\ result.page_order =
                   calculate_signature_order(input_file.pages,
                                             signature_size).value
              /\ Len(result.page_order) = input_file.pages
              /\ result.total_signatures
                   = TotalSignatures(input_file.pages, signature_size)
              /\ result.total_papers
                   = TotalPapers(input_file.pages, signature_size)
              /\ ~writer.created
              /\ output_file.state \in {"absent", "old"})

C11_Witness ==
    /\ pc = "returned"
    /\ dry_run
    /\ input_file.pages > signature_size
    /\ result.dry_run
    /\ output_file.state = "absent"

\* C12: outside dry-run mode the k-th page added to the writer is source
\* page page_order[k], in the calculator's order and with none skipped;
\* the file written holds them and output_pages equals total_pages.
C12_PagesAddedInOrder ==
    (writer.created /\ ~dry_run) =>
        /\ result.page_order
             = calculate_signature_order(total_pages, signature_size).value
        /\ writer.pages = SubSeq(result.page_order, 1, next_index)
        /\ pc \in {"open", "write", "returned"}
             => writer.pages = result.page_order
        /\ pc = "returned" =>
             /\ output_file = [state |-> "written",
                               pages |-> result.page_order]
             /\ result.output_pages = total_pages
             /\ result.output_pages = Len(writer.pages)

C12_Witness ==
    /\ pc = "returned"
    /\ ~dry_run
    /\ writer.created
    /\ total_pages > signature_size
    /\ total_pages % signature_size # 0
    /\ result.output_pages = total_pages
    /\ output_file.pages = result.page_order

\* A run of main is under way or has ended.
CliRun == args.parsed

\* The sizes the command line accepts.
CliSizeOk == ValidSize(args.signature_size)
             /\ args.signature_size <= CliMaxSize

\* process_pdf has been entered (and perhaps left) in this run.
Processing ==
    pc \in {"read", "order", "stats", "add", "open", "write", "returned",
            "raised"}

\* Nothing of process_pdf has happened: the PDF was not read, no order was
\* computed, no writer exists and the output file is as it was.
Untouched ==
    /\ total_pages = 0
    /\ ret = Returned(<<>>)
    /\ result = NoResult
    /\ writer = NoWriter
    /\ thrown = "none"
    /\ output_file.state \in {"absent", "old"}

\* C13: in a run of main, process_pdf (and so the calculator) is entered
\* only with a size that is a multiple of 4 with 4 <= size <= 128; any
\* other size ends the run with exit status 1, the PDF unread and nothing
\* written.
C13_ValidationBeforeProcessing ==
    CliRun =>
        /\ (pc = "process" \/ Processing) => CliSizeOk
        /\ Processing => signature_size = args.signature_size
        /\ ~CliSizeOk => Untouched
        /\ (~CliSizeOk /\ pc # "validate")
             => (pc = "exited" /\ exit_status = 1)

C13_Witness ==
    /\ CliRun
    /\ args.signature_size = CliMaxSize + 4
    /\ input_file.status = "ok"
    /\ pc = "exited"
    /\ exit_status = 1

\* Every check of validate_arguments other than the one for an existing
\* output file passes.
OtherChecksPass ==
    /\ ~PdfError(input_file.status)
    /\ CliSizeOk
    /\ args.dry_run \/ out_dir = "writable"
    /\ ~(args.quiet /\ args.verbose)

\* C14: outside dry-run mode, with the output path existing and no --force,
\* the run ends with exit status 1 before process_pdf is called and the
\* existing file is left untouched; with --force, or in dry-run mode, an
\* existing output path is no error (validation passes when the other
\* checks do).
C14_OverwritePolicy ==
    /\ [][(CliRun /\ ~args.dry_run /\ ~args.force
             /\ output_file.state = "old" /\ pc' # "idle")
            => /\ pc' = "exited"
               /\ exit_status' = 1
               /\ output_file' = output_file
               /\ Untouched']_vars
    /\ [][(pc = "validate" /\ output_file.state = "old"
             /\ (args.force \/ args.dry_run) /\ OtherChecksPass)
            => (pc' = "process" /\ exit_status' = NoExit)]_vars

C14_Witness ==
    /\ CliRun
    /\ ~args.dry_run
    /\ ~args.force
    /\ OtherChecksPass
    /\ output_file.state = "old"
    /\ pc = "exited"
    /\ exit_status = 1

\* process_pdf ran to its return in this run.
Completed ==
    /\ thrown = "none"
    /\ escaped = "none"
    /\ "page_order" \in DOMAIN result
    /\ args.dry_run \/ output_file.state = "written"

\* C15: calculate_signature_order is deterministic and keeps no state
\* between calls.  The function is an operator of its two arguments here,
\* so the comparison of two calls would compare the operator with itself;
\* no formula is given.

\* C16: main ends with 0 only when processing completed without an error
\* and with a non-zero code otherwise: FileNotFoundError 2, PermissionError
\* 13, ValueError 22, RuntimeError or any other OSError 1,
\* KeyboardInterrupt 130, a validation failure 1.
C16_ExitCodes ==
    /\ ExitCode("ValueError") = 22
    /\ ExitCode("OSError") = 1
    /\ ExitCode("IsADirectoryError") = 1
    /\ (CliRun /\ pc = "exited") =>
         /\ exit_status = 0 <=> Completed
         /\ escaped = "FileNotFoundError" => exit_status = 2
         /\ escaped = "PermissionError" => exit_status = 13
         /\ escaped = "ValueError" => exit_status = 22
         /\ escaped = "RuntimeError" => exit_status = 1
         /\ escaped = "KeyboardInterrupt" => exit_status = 130
         /\ Untouched => exit_status = 1
         /\ exit_status \in {0, 1, 2, 13, 22, 130}
    /\ (CliRun /\ pc # "exited") => exit_status = NoExit

C16_Witness ==
    /\ CliRun
    /\ pc = "exited"
    /\ writer.created
    /\ thrown = "FileNotFoundError"
    /\ exit_status = 2

C18_PaddedLength ==
    ValidCall =>
        LET padded_pages == PaddedPages(total_pages, signature_size)
            pages == Pages(total_pages, signature_size)
            blanks == Cardinality({k \in 1..Len(pages) : pages[k] = None})
        IN  /\ padded_pages % signature_size = 0
            /\ total_pages <= padded_pages
            /\ padded_pages < total_pages + signature_size
            /\ \A m \in 0..(total_pages + signature_size) :
                 (m % signature_size = 0 /\ m >= total_pages)
                     => padded_pages <= m
            /\ Len(pages) = padded_pages
            /\ blanks = padded_pages - total_pages
            /\ 0 <= blanks /\ blanks <= signature_size - 1

C18_Witness ==
    /\ ValidCall
    /\ total_pages > signature_size
    /\ total_pages % signature_size = 1
    /\ PaddedPages(total_pages, signature_size)
         = total_pages + signature_size - 1

\* C19 as stated: a call with a negative total_pages and a valid size
\* fails with an error instead of returning a sequence.
C19_NegativePagesFail ==
    (Called /\ total_pages < 0 /\ ValidSize(signature_size)) =>
        ret.raised # "none"

\* C19 amended: the page count is not checked: such a call raises nothing
\* and returns the empty sequence.
C19_NegativePagesEmpty ==
    (Called /\ total_pages < 0 /\ ValidSize(signature_size)) =>
        ret = Returned(<<>>)

C19_Witness ==
    /\ Called
    /\ total_pages = 0 - 2
    /\ signature_size = 8
    /\ ret.raised = "none"

\* process_pdf has built its result dictionary.
ResultBuilt == "page_order" \in DOMAIN result

\* C20: the statistics agree with the calculator: papers_per_signature is
\* size / 4, total_signatures is ceil(total_pages / size) (0 for an empty
\* document) and the number of signatures the calculator visits,
\* total_papers their product, and
\* total_pages <= total_signatures * size < total_pages + size.
C20_Statistics ==
    ResultBuilt =>
        LET n == result.total_pages
            s == result.signature_size
        IN  /\ n = total_pages /\ s = signature_size
            /\ result.papers_per_signature * 4 = s
            /\ result.total_signatures * s >= n
            /\ \A k \in 0..n : k * s >= n => result.total_signatures <= k
            /\ n = 0 => result.total_signatures = 0
            /\ result.total_papers
                 = result.total_signatures * result.papers_per_signature
            /\ n <= result.total_signatures * s
            /\ result.total_signatures * s < n + s
            /\ result.total_signatures
                 = Cardinality(SignatureStarts(PaddedPages(n, s), s))

C20_Witness ==
    /\ ResultBuilt
    /\ result.total_pages > 2 * result.signature_size
    /\ result.total_pages % result.signature_size # 0
    /\ result.total_signatures = 3
    /\ result.papers_per_signature = 2
    /\ result.total_papers = 6

\* Both --quiet and --verbose were given.
Conflict == CliRun /\ args.quiet /\ args.verbose

\* C21: a run given both --quiet and --verbose never enters process_pdf
\* and ends with exit status 1, whatever the other arguments are; when
\* every earlier check passes the conflict itself is what rejects it.
C21_QuietVerboseConflict ==
    /\ [](Conflict =>
            /\ pc \in {"validate", "exited"}
            /\ Untouched
            /\ pc = "exited" => exit_status = 1)
    /\ [][(Conflict /\ pc = "validate")
            => (pc' = "exited" /\ exit_status' = 1)]_vars
    /\ [][(Conflict /\ pc = "validate" /\ ~PdfError(input_file.status)
             /\ CliSizeOk /\ (args.dry_run \/ args.force)
             /\ out_dir = "writable")
            => /\ Rejection(args, input_file, output_file, out_dir)
                    = "conflict"
               /\ pc' = "exited"
               /\ exit_status' = 1]_vars

C21_Witness ==
    /\ Conflict
    /\ ~PdfError(input_file.status)
    /\ CliSizeOk
    /\ ~args.dry_run
    /\ args.force
    /\ out_dir = "writable"
    /\ pc = "exited"
    /\ exit_status = 1

\* The calculator is between its entry and its return or raise.
Calculating == pc \in {"check", "pad", "signature", "sheet", "filter"}

\* The loops of the calculator are running or done, on a valid size.
InLoops == pc \in {"pad", "signature", "sheet", "filter"}

\* The bound on the number of loop iterations of a call.
StepBound(padded) == 2 * padded

RECURSIVE TailFrom(_, _, _, _)
TailFrom(b, s, r, i) ==
    IF i >= s \div 2
    THEN <<>>
    ELSE (IF s - i <= r THEN <<b + s - i>> ELSE <<>>)
         \o (IF i + 1 <= r THEN <<b + i + 1>> ELSE <<>>)
         \o TailFrom(b, s, r, i + 1)

\* The part of the result that comes from the last, partial signature.
LastTail == SubSeq(ret.value, LastStart + 1, total_pages)

\* C23: with b = floor(n/s)*s and 0 < r = n - b < s, the tail of the result
\* is made by visiting i = 0..s/2-1 and emitting page b + s - i only if
\* s - i <= r, then page b + i + 1 only if i + 1 <= r; so the front-half
\* pages b+1..b+min(r, s/2) stay in ascending order and every real
\* back-half page b + s - i comes immediately before front page b + i + 1.
C23_PartialSignatureOrder ==
    (ValidCall /\ LastReal > 0) =>
        LET b == LastStart
            s == signature_size
            r == LastReal
            half == s \div 2
            front == IF r < half THEN r ELSE half
        IN  /\ Len(ret.value) = total_pages
            /\ LastTail = TailFrom(b, s, r, 0)
            /\ LET IsFront(p) == p <= b + half
               IN  SelectSeq(LastTail, IsFront) = [k \in 1..front |-> b + k]
            /\ \A k \in 1..Len(LastTail) :
                 LastTail[k] > b + half =>
                     /\ k < Len(LastTail)
                     /\ LastTail[k + 1] = b + (s - (LastTail[k] - b)) + 1
            /\ \A i \in 0..(half - 1) :
                 s - i <= r => \E k \in 1..(Len(LastTail) - 1) :
                     LastTail[k] = b + s - i /\ LastTail[k + 1] = b + i + 1

C23_Witness ==
    /\ ValidCall
    /\ LastStart > 0
    /\ signature_size >= 8
    /\ LastReal = signature_size - 1
    /\ LastTail[1] = LastStart + 1
    /\ LastTail[2] = total_pages
    /\ LastTail[3] = LastStart + 2

\* The result for the fully padded document of the current call.
PaddedResult ==
    calculate_signature_order(PaddedPages(total_pages, signature_size),
                              signature_size).value

\* C24: dropping blanks never reorders real pages: with padded the
\* smallest multiple of the size >= total_pages, the result for
\* total_pages is the result for padded pages with every value greater
\* than total_pages removed, the rest in the same order.
C24_SubsequenceOfPadded ==
    ValidCall =>
        LET IsReal(p) == p <= total_pages
        IN  /\ ret.raised = "none"
            /\ Len(PaddedResult) = PaddedPages(total_pages, signature_size)
            /\ ret.value = SelectSeq(PaddedResult, IsReal)

C24_Witness ==
    /\ ValidCall
    /\ total_pages > signature_size
    /\ 2 * LastReal > signature_size
    /\ Len(PaddedResult) > Len(ret.value)
    /\ PaddedResult[LastStart + 1] = LastStart + signature_size
    /\ ret.value[LastStart + 1] = LastStart + 1

\* A direct call of the script's function has returned or raised.
ScriptCalled == pc = "script_calculated"

\* What the package's function gives for the same arguments.
PackageOutcome == calculate_signature_order(total_pages, signature_size)

\* C25: the script's calculate_signature_order and the package's return
\* the same sequence for every valid signature_size (and every
\* total_pages >= 0); they differ only on invalid sizes, where the package
\* raises ValueError and the script, which does not check, does not.
C25_ScriptAgreesWithPackage ==
    ScriptCalled =>
        /\ ValidSize(signature_size) =>
              /\ ret.raised = "none"
              /\ ret = PackageOutcome
        /\ ~ValidSize(signature_size) =>
              /\ PackageOutcome = Raised("ValueError")
              /\ ret.raised # "ValueError"
              /\ ret # PackageOutcome

C25_Witness ==
    /\ ScriptCalled
    /\ ValidSize(signature_size)
    /\ total_pages > 2 * signature_size
    /\ 2 * LastReal > signature_size
    /\ ret.raised = "none"
    /\ Len(ret.value) = total_pages
    /\ ret.value[1] = signature_size

\* A run of main with --dry-run is under way or has ended.
DryRun == CliRun /\ args.dry_run

\* C26: a run with --dry-run changes nothing in the file system:
\* validate_arguments neither checks nor creates the output file or its
\* directory (its verdict is the same whatever their state), and
\* process_pdf returns before a writer is created or the output opened.
C26_DryRunNoFilesystemChange ==
    /\ [][(DryRun /\ pc' # "idle")
            => /\ output_file' = output_file
               /\ out_dir' = out_dir
               /\ input_file' = input_file
               /\ writer' = NoWriter]_vars
    /\ [](DryRun =>
            /\ pc \notin {"add", "open", "write"}
            /\ ~writer.created
            /\ \A o \in {"absent", "old"},
                  d \in {"writable", "readonly", "missing", "uncreatable"} :
                 /\ Rejection(args, input_file,
                              [state |-> o, pages |-> <<>>], d)
                      = Rejection(args, input_file, output_file, out_dir)
                 /\ DirAfterValidation(args, input_file,
                              [state |-> o, pages |-> <<>>], d) = d)

C26_Witness ==
    /\ DryRun
    /\ ~args.force
    /\ out_dir = "missing"
    /\ output_file.state = "absent"
    /\ input_file.pages > args.signature_size
    /\ pc = "exited"
    /\ exit_status = 0
    /\ ResultBuilt
    /\ Len(result.page_order) = input_file.pages

\* validate_arguments ended the run: the run is over and process_pdf was
\* never entered.
Rejected == CliRun /\ pc = "exited" /\ Untouched

\* The checks of validate_arguments that come before the output directory
\* is looked at.
EarlyRejections == {"input", "multiple", "small", "large", "exists"}

\* C27 as stated: whenever validate_arguments rejects the command line it
\* has changed nothing in the file system; in particular it has not
\* created the output directory before rejecting.
C27_RejectionChangesNothing ==
    Rejected => (exit_status = 1 /\ out_dir # "created")

\* C27 amended: a rejection ends the run with status 1 and leaves both
\* files alone; it leaves the directory alone too when it comes from the
\* input, size or existing-output checks or in dry-run mode, but outside
\* dry-run mode a missing directory is created before the later checks,
\* so a run rejected for --quiet with --verbose has created it.
C27_RejectionAfterDirectory ==
    [][(pc = "validate" /\ pc' = "exited") =>
        LET why == Rejection(args, input_file, output_file, out_dir)
        IN  /\ exit_status' = 1
            /\ Rejected'
            /\ input_file' = input_file
            /\ output_file' = output_file
            /\ (why \in EarlyRejections \/ args.dry_run)
                 => out_dir' = out_dir
            /\ out_dir' # out_dir =>
                 /\ ~args.dry_run
                 /\ out_dir = "missing"
                 /\ out_dir' = "created"
                 /\ why \notin EarlyRejections
            /\ (why = "conflict" /\ ~args.dry_run /\ out_dir = "missing")
                 => out_dir' = "created"]_vars

C27_Witness ==
    /\ Rejected
    /\ exit_status = 1
    /\ ~args.dry_run
    /\ args.quiet /\ args.verbose
    /\ CliSizeOk
    /\ input_file.status = "ok"
    /\ output_file.state = "absent"
    /\ out_dir = "created"

\* The output path has been opened for writing by process_pdf.
OutputOpened == output_file.state \in {"truncated", "partial", "written"}

\* Everything that precedes the open has been done: the input read, the
\* order computed and every page of it added to the writer.
ReadyToWrite ==
    /\ input_file.status = "ok"
    /\ total_pages = input_file.pages
    /\ ResultBuilt
    /\ result.page_order
         = calculate_signature_order(total_pages, signature_size).value
    /\ writer.created
    /\ next_index = Len(result.page_order)
    /\ writer.pages = result.page_order

\* C28 as stated: the output path is opened only after the input has been
\* read, the order computed and every page added; and whenever process_pdf
\* raises, the output file has been neither created nor truncated and no
\* partially written file is left behind.
C28_NoPartialOutput ==
    /\ OutputOpened => ReadyToWrite
    /\ pc = "raised" => output_file.state \in {"absent", "old"}

\* C28 amended: the open comes after the reading, the ordering and the
\* adding, and a failure in one of those (or of the open itself) leaves
\* the output path as it was; but a failure after the open (the write
\* fails, or Ctrl-C) leaves the truncated or partly written file behind,
\* an earlier file at that path being lost.
C28_OutputOpenedLast ==
    /\ [](OutputOpened => ReadyToWrite)
    /\ [](pc \in {"read", "order", "stats", "add", "open"}
            => output_file.state \in {"absent", "old"})
    /\ [][(pc \in {"read", "order", "stats", "add", "open"}
             /\ pc' = "raised")
            => /\ output_file' = output_file
               /\ output_file.state \in {"absent", "old"}]_vars
    /\ [][(pc = "write" /\ pc' = "raised")
            => /\ output_file'.state \in {"truncated", "partial"}
               /\ Len(output_file'.pages) < Len(writer.pages)
                    \/ writer.pages = <<>>]_vars
    /\ []((pc = "raised" /\ OutputOpened)
            => output_file.state \in {"truncated", "partial"})

C28_Witness ==
    /\ pc = "raised"
    /\ thrown = "OSError"
    /\ escaped = "RuntimeError"
    /\ output_file.state = "partial"
    /\ Len(output_file.pages) > 0
    /\ Len(output_file.pages) < Len(writer.pages)

====
